---- MODULE Spec2Model ----
(***************************************************************************)
(* Golden-Reel: the App component's session state (image, filter, loading  *)
(* flag, error), its three handlers, the file readers and the generation   *)
(* calls in flight, and getVividWarmFilterCss, the client of the external  *)
(* filter-generation service.                                              *)
(***************************************************************************)
EXTENDS Naturals, Sequences, FiniteSets, TLC

(* ------------------------------ bounds -------------------------------- *)

\* Generation calls that may be awaiting the service at the same time.
MaxInflight == 3

\* FileReaders that may be reading at the same time.
MaxReaders == 2

\* Calls in flight when the handlers are driven directly.
MaxDirectCalls == 2

\* Calls in flight and FileReaders reading where behaviours are followed to
\* their end (liveness).
MaxLiveCalls == 2

MaxLiveReaders == 1

(* --------------------------- optional values -------------------------- *)

\* A `T | null` state cell: None is null, Some(v) holds v.
None == << >>

Some(v) == << v >>

RemoveAt(s, i) == [j \in 1..(Len(s) - 1) |-> IF j < i THEN s[j] ELSE s[j + 1]]

(* ------------------------- the service payloads ----------------------- *)

\* Lexical pieces of a payload text: whitespace, punctuation, string
\* literals, number literals and bare words.
Ws == [k |-> "ws", s |-> " "]

P(c) == [k |-> "punct", s |-> c]

Str(s) == [k |-> "str", s |-> s]

Num(s) == [k |-> "num", s |-> s]

Word(s) == [k |-> "word", s |-> s]

\* What the awaited generateContent call can produce: a rejection with an
\* Error, a rejection with a value that is no Error, a response whose text
\* is undefined, or a response with a text.
Responses ==
  { [kind |-> "reject", isError |-> TRUE, message |-> <<"timeout">>, text |-> << >>],
    [kind |-> "reject", isError |-> FALSE, message |-> << >>, text |-> << >>],
    [kind |-> "notext", isError |-> FALSE, message |-> << >>, text |-> << >>],
    [kind |-> "text", isError |-> FALSE, message |-> << >>, text |-> << >>],
    [kind |-> "text", isError |-> FALSE, message |-> << >>, text |-> <<Ws, Ws>>],
    [kind |-> "text", isError |-> FALSE, message |-> << >>,
     text |-> <<Word("not"), Ws, Word("json")>>],
    [kind |-> "text", isError |-> FALSE, message |-> << >>, text |-> <<Word("null")>>],
    [kind |-> "text", isError |-> FALSE, message |-> << >>, text |-> <<P("{"), P("}")>>],
    [kind |-> "text", isError |-> FALSE, message |-> << >>,
     text |-> <<P("{"), Str("filter"), P(":"), Str(""), P("}")>>],
    [kind |-> "text", isError |-> FALSE, message |-> << >>,
     text |-> <<P("{"), Str("filter"), P(":"), Num("42"), P("}")>>],
    [kind |-> "text", isError |-> FALSE, message |-> << >>,
     text |-> <<Ws, P("{"), Str("filter"), P(":"),
                Str("saturate(1.2) contrast(1.1)"), P("}"), Ws>>],
    [kind |-> "text", isError |-> FALSE, message |-> << >>,
     text |-> <<P("{"), Str("filter"), P(":"), Str("sepia(0.15)"), P(","),
                Str("extra"), P(":"), Num("1"), P("}")>>] }

(* --------------------------- String.trim ------------------------------ *)

RECURSIVE trimStart(_)
trimStart(t) ==
  IF t # << >> /\ Head(t).k = "ws" THEN trimStart(Tail(t)) ELSE t

RECURSIVE trimEnd(_)
trimEnd(t) ==
  IF t # << >> /\ t[Len(t)].k = "ws" THEN trimEnd(SubSeq(t, 1, Len(t) - 1)) ELSE t

trim(t) == trimEnd(trimStart(t))

(* ----------------------------- JSON.parse ----------------------------- *)

\* A parsed JSON value: its type, its text when it is a string or a number,
\* and its members when it is an object (members are primitives here).
JValue(t, s) == [t |-> t, s |-> s, fields |-> << >>]

JObject(fields) == [t |-> "object", s |-> "", fields |-> fields]

IsScalarToken(tok) ==
  \/ tok.k \in {"str", "num"}
  \/ tok.k = "word" /\ tok.s \in {"null", "true", "false"}

ScalarOf(tok) ==
  CASE tok.k = "str" -> JValue("string", tok.s)
    [] tok.k = "num" -> JValue("number", tok.s)
    [] tok.s = "null" -> JValue("null", "")
    [] OTHER -> JValue("boolean", tok.s)

\* The members of an object, after the opening brace: key : value pairs
\* separated by commas; a repeated key keeps its last value.
RECURSIVE ParseMembers(_, _)
ParseMembers(t, acc) ==
  IF Len(t) < 3 \/ t[1].k # "str" \/ t[2] # P(":") \/ ~IsScalarToken(t[3])
  THEN [ok |-> FALSE, value |-> JObject(<< >>)]
  ELSE LET key == t[1].s
           got == [k \in (DOMAIN acc) \cup {key} |->
                     IF k = key THEN ScalarOf(t[3]) ELSE acc[k]]
       IN  IF Len(t) = 3 THEN [ok |-> TRUE, value |-> JObject(got)]
           ELSE IF t[4] = P(",") THEN ParseMembers(SubSeq(t, 5, Len(t)), got)
           ELSE [ok |-> FALSE, value |-> JObject(<< >>)]

\* JSON.parse: whitespace between tokens is insignificant; ok is FALSE where
\* JSON.parse throws a SyntaxError.
JSONparse(text) ==
  LET t == SelectSeq(text, LAMBDA tok : tok.k # "ws")
  IN  IF Len(t) = 1 /\ IsScalarToken(t[1]) THEN [ok |-> TRUE, value |-> ScalarOf(t[1])]
      ELSE IF Len(t) >= 2 /\ t[1] = P("{") /\ t[Len(t)] = P("}")
      THEN IF Len(t) = 2 THEN [ok |-> TRUE, value |-> JObject(<< >>)]
           ELSE ParseMembers(SubSeq(t, 2, Len(t) - 1), << >>)
      ELSE [ok |-> FALSE, value |-> JObject(<< >>)]

(* ----------------------- getVividWarmFilterCss ------------------------ *)

\* Messages are sequences of text pieces, so that a template literal is a
\* concatenation.
Returned(css) == [ok |-> TRUE, value |-> css, message |-> << >>]

Thrown(message) == [ok |-> FALSE, value |-> "", message |-> message]

\* Variant: the caught error's message is dropped.
catchGeminiGeneric(isError, message) ==
  Thrown(<<"An unexpected error occurred while communicating with the Gemini API.">>)

\* The catch block: an Error is rethrown with its message prefixed, anything
\* else is replaced by a fixed message.
catchGemini(isError, message) ==
  IF isError THEN Thrown(<<"Gemini API Error: ">> \o message)
  ELSE Thrown(<<"An unexpected error occurred while communicating with the Gemini API.">>)

\* The try block after the awaited call has produced resp.
getVividWarmFilterCss(resp) ==
  IF resp.kind = "reject" THEN catchGemini(resp.isError, resp.message)
  ELSE IF resp.kind = "notext"
  THEN catchGemini(TRUE, <<"Cannot read properties of undefined (reading 'trim')">>)
  ELSE LET jsonText == trim(resp.text)
           parsed == JSONparse(jsonText)
           result == parsed.value
       IN  IF jsonText = << >>
           THEN catchGemini(TRUE, <<"API returned an empty response.">>)
           ELSE IF ~parsed.ok
           THEN catchGemini(TRUE, <<"Unexpected token in JSON">>)
           ELSE IF result.t = "null"
           THEN catchGemini(TRUE, <<"Cannot read properties of null (reading 'filter')">>)
           ELSE IF /\ result.t = "object"
                   /\ "filter" \in DOMAIN result.fields
                   /\ result.fields["filter"].t = "string"
                   /\ result.fields["filter"].s # ""
           THEN Returned(result.fields["filter"].s)
           ELSE catchGemini(TRUE, <<"Invalid or empty filter value in API response.">>)

(* ------------------------------- state -------------------------------- *)

\* Files the user can select, and FileReader.readAsDataURL's result for one.
Files == {"photo.png", "notes.txt"}

readAsDataURL(file) == <<"data:", file>>

\* What process.env.API_KEY can hold when the module is loaded: nothing, the
\* empty string, or a key.
Credentials == {None, Some(""), Some("key")}

VARIABLES
  API_KEY,        \* process.env.API_KEY as read when the module is loaded
  originalImage,  \* useState<string | null>: the data URL of the loaded image
  filteredCss,    \* useState<string | null>: the generated CSS filter
  isLoading,      \* useState<boolean>
  error,          \* useState<string | null>
  requests,       \* applyFilter calls suspended at their await, oldest first
  readers,        \* FileReaders still reading, oldest first
  lastEvent,      \* history: the event handled last
  prev            \* history: the state that event was handled in

session == <<originalImage, filteredCss, isLoading, error>>

vars == <<API_KEY, originalImage, filteredCss, isLoading, error, requests, readers, lastEvent, prev>>

\* What an event finds: the four state cells, the number of calls in flight
\* and, for a completion, the call that completes and what the service
\* produced for it (None for other events).
Snapshot(call, resp) ==
  [image |-> originalImage, filter |-> filteredCss, loading |-> isLoading,
   error |-> error, calls |-> Len(requests), call |-> call, resp |-> resp]

Handled(event, call, resp) ==
  /\ lastEvent' = event
  /\ prev' = Snapshot(call, resp)
  /\ UNCHANGED API_KEY

\* Variant: the key is not checked when the module is loaded.
ModuleLoadsUnchecked == TRUE

\* if (!API_KEY) throw ...: the service module, and App, which imports it,
\* load only with a non-empty key.
ModuleLoads == API_KEY # None /\ API_KEY # Some("")

Init ==
  /\ API_KEY \in Credentials
  /\ originalImage = None
  /\ filteredCss = None
  /\ isLoading = FALSE
  /\ error = None
  /\ requests = << >>
  /\ readers = << >>
  /\ lastEvent = IF ModuleLoads THEN "mount" ELSE "configurationError"
  /\ prev = [image |-> None, filter |-> None, loading |-> FALSE, error |-> None,
             calls |-> 0, call |-> None, resp |-> None]

(* ------------------------------ handlers ------------------------------ *)

\* handleImageUpload: a FileReader starts reading the file.
handleImageUpload(file) ==
  /\ readers' = Append(readers, file)
  /\ UNCHANGED <<session, requests>>

\* reader.onloadend: fires when the read ends, with the data URL, or with
\* null when the read failed.
onloadend(i, loaded) ==
  /\ originalImage' = IF loaded THEN Some(readAsDataURL(readers[i])) ELSE None
  /\ filteredCss' = None
  /\ error' = None
  /\ readers' = RemoveAt(readers, i)
  /\ UNCHANGED <<isLoading, requests>>

\* A call as it suspends: the newest call, issued since the last reset.
NewCall == [latest |-> TRUE, current |-> TRUE]

Superseded(calls) == [j \in 1..Len(calls) |-> [calls[j] EXCEPT !.latest = FALSE]]

Abandoned(calls) == [j \in 1..Len(calls) |-> [calls[j] EXCEPT !.current = FALSE]]

\* Variant: the filter of the previous request is not cleared.
applyFilterKeepsFilter ==
  IF originalImage = None
  THEN UNCHANGED <<session, requests, readers>>
  ELSE /\ isLoading' = TRUE
       /\ error' = None
       /\ requests' = Append(Superseded(requests), NewCall)
       /\ UNCHANGED <<originalImage, filteredCss, readers>>

\* Variant: the error of the previous request is not cleared.
applyFilterKeepsError ==
  IF originalImage = None
  THEN UNCHANGED <<session, requests, readers>>
  ELSE /\ isLoading' = TRUE
       /\ filteredCss' = None
       /\ requests' = Append(Superseded(requests), NewCall)
       /\ UNCHANGED <<originalImage, error, readers>>

\* Variant: no early return when there is no image.
applyFilterUnguarded ==
  /\ isLoading' = TRUE
  /\ error' = None
  /\ filteredCss' = None
  /\ requests' = Append(Superseded(requests), NewCall)
  /\ UNCHANGED <<originalImage, readers>>

\* applyFilter up to its await: nothing without an image; otherwise the flag
\* is raised, error and filter are cleared and the service is called.
applyFilter ==
  IF originalImage = None
  THEN UNCHANGED <<session, requests, readers>>
  ELSE /\ isLoading' = TRUE
       /\ error' = None
       /\ filteredCss' = None
       /\ requests' = Append(Superseded(requests), NewCall)
       /\ UNCHANGED <<originalImage, readers>>

\* Variant: the flag is lowered in the try block, so not after a failure.
applyFilterResumeNoFinally(i, resp) ==
  LET cssFilter == getVividWarmFilterCss(resp)
  IN  /\ IF cssFilter.ok
         THEN /\ filteredCss' = Some(cssFilter.value)
              /\ isLoading' = FALSE
              /\ UNCHANGED error
         ELSE /\ error' = Some(<<"Failed to apply filter. ">> \o cssFilter.message)
              /\ UNCHANGED <<filteredCss, isLoading>>
      /\ requests' = RemoveAt(requests, i)
      /\ UNCHANGED <<originalImage, readers>>

\* Variant: a failed call is issued again before the failure is reported.
applyFilterResumeRetries(i, resp) ==
  LET cssFilter == getVividWarmFilterCss(resp)
  IN  /\ IF cssFilter.ok
         THEN /\ filteredCss' = Some(cssFilter.value)
              /\ requests' = RemoveAt(requests, i)
              /\ UNCHANGED error
         ELSE /\ error' = Some(<<"Failed to apply filter. ">> \o cssFilter.message)
              /\ UNCHANGED <<filteredCss, requests>>
      /\ isLoading' = FALSE
      /\ UNCHANGED <<originalImage, readers>>

\* Variant: a failure is swallowed, no error is set.
applyFilterResumeSwallows(i, resp) ==
  LET cssFilter == getVividWarmFilterCss(resp)
  IN  /\ IF cssFilter.ok
         THEN /\ filteredCss' = Some(cssFilter.value)
              /\ UNCHANGED error
         ELSE UNCHANGED <<filteredCss, error>>
      /\ isLoading' = FALSE
      /\ requests' = RemoveAt(requests, i)
      /\ UNCHANGED <<originalImage, readers>>

\* applyFilter from its await on, for the call at position i whose service
\* call produced resp: try, catch and finally.
applyFilterResume(i, resp) ==
  LET cssFilter == getVividWarmFilterCss(resp)
  IN  /\ IF cssFilter.ok
         THEN /\ filteredCss' = Some(cssFilter.value)
              /\ UNCHANGED error
         ELSE /\ error' = Some(<<"Failed to apply filter. ">> \o cssFilter.message)
              /\ UNCHANGED filteredCss
      /\ isLoading' = FALSE
      /\ requests' = RemoveAt(requests, i)
      /\ UNCHANGED <<originalImage, readers>>

\* Variant: the loading flag is not lowered.
handleResetKeepsLoading ==
  /\ originalImage' = None
  /\ filteredCss' = None
  /\ error' = None
  /\ requests' = Abandoned(requests)
  /\ UNCHANGED <<isLoading, readers>>

\* handleReset: the four cells are cleared; calls and readers in flight are
\* left to finish.
handleReset ==
  /\ originalImage' = None
  /\ filteredCss' = None
  /\ error' = None
  /\ isLoading' = FALSE
  /\ requests' = Abandoned(requests)
  /\ UNCHANGED readers

(* --------------------------- what is rendered ------------------------- *)

\* {!originalImage && <ImageUploader .../>}
UploaderRendered == originalImage = None

\* Variant: the buttons are rendered only while there is no error.
ButtonsHiddenOnError == originalImage # None /\ error = None

\* {originalImage && (... the two buttons ...)}
ButtonsRendered == originalImage # None

\* Variant: the Apply button is never disabled.
ApplyNeverDisabled == FALSE

\* <button onClick={applyFilter} disabled={isLoading}>
ApplyDisabled == isLoading

(* ------------------------- the rendered component --------------------- *)

\* The user picks or drops a file on the uploader.
Upload ==
  /\ ModuleLoads
  /\ UploaderRendered
  /\ Len(readers) < MaxReaders
  /\ \E file \in Files : handleImageUpload(file)
  /\ Handled("upload", None, None)

\* A reader finishes.
ImageLoaded ==
  \E i \in 1..Len(readers), loaded \in BOOLEAN :
    /\ ModuleLoads
    /\ onloadend(i, loaded)
    /\ Handled(IF loaded THEN "imageLoaded" ELSE "imageUnreadable", None, None)

\* The user activates the Apply button; a disabled button swallows the click.
RequestFilter ==
  /\ ModuleLoads
  /\ ButtonsRendered
  /\ ApplyDisabled \/ Len(requests) < MaxInflight
  /\ IF ApplyDisabled THEN UNCHANGED <<session, requests, readers>> ELSE applyFilter
  /\ Handled("requestFilter", None, None)

\* The service call of one suspended applyFilter settles.
RequestCompleted ==
  \E i \in 1..Len(requests), resp \in Responses :
    /\ ModuleLoads
    /\ applyFilterResume(i, resp)
    /\ Handled(IF getVividWarmFilterCss(resp).ok THEN "requestSucceeded" ELSE "requestFailed",
               Some(requests[i]), Some(resp))

\* The user activates the Reset button.
Reset ==
  /\ ModuleLoads
  /\ ButtonsRendered
  /\ handleReset
  /\ Handled("reset", None, None)

Next == Upload \/ ImageLoaded \/ RequestFilter \/ RequestCompleted \/ Reset

Spec == Init /\ [][Next]_vars

\* The rendered component with a service that answers: a call that is
\* awaited is eventually settled, by a response or by a rejection.
NextLive ==
  /\ Next
  /\ Len(requests') <= MaxLiveCalls
  /\ Len(readers') <= MaxLiveReaders

SpecLive == Init /\ [][NextLive]_vars /\ WF_vars(RequestCompleted)

(* ----------------- the handlers without the rendering ----------------- *)

\* The handlers driven directly, in any state, as a caller of the component's
\* callbacks would drive them.
CallUpload ==
  /\ ModuleLoads
  /\ Len(readers) < MaxReaders
  /\ \E file \in Files : handleImageUpload(file)
  /\ Handled("upload", None, None)

CallApplyFilter ==
  /\ ModuleLoads
  /\ originalImage = None \/ Len(requests) < MaxDirectCalls
  /\ applyFilter
  /\ Handled("requestFilter", None, None)

CallReset ==
  /\ ModuleLoads
  /\ handleReset
  /\ Handled("reset", None, None)

NextHandlers == CallUpload \/ ImageLoaded \/ CallApplyFilter \/ RequestCompleted \/ CallReset

SpecHandlers == Init /\ [][NextHandlers]_vars

(* ------------------------------- claims ------------------------------- *)

Completion == lastEvent \in {"requestSucceeded", "requestFailed"}

SessionAsFound == session = <<prev.image, prev.filter, prev.loading, prev.error>>

EmptySession == session = <<None, None, FALSE, None>>

CurrentCalls == {i \in 1..Len(requests) : requests[i].current}

\* C1: when a call was issued and reset happened before it completed, its
\* completion, success or failure, changes none of image, filter, error and
\* pending.
C1_CompletionAfterResetIgnored ==
  (Completion /\ ~prev.call[1].current) => SessionAsFound

\* C2: the completion of a call that is not the most recently issued one is
\* discarded: it sets neither filter nor error and does not clear pending.
C2_SupersededCompletionDiscarded ==
  (Completion /\ ~prev.call[1].latest) =>
     /\ filteredCss = prev.filter
     /\ error = prev.error
     /\ isLoading = prev.loading

\* C3: at most one call issued by the session (since its last reset) is
\* outstanding at any time.
C3_AtMostOneOutstanding == Cardinality(CurrentCalls) <= 1

\* C4: pending is true exactly while a call issued by the session (since its
\* last reset) is outstanding.
C4_PendingIffOutstanding == isLoading <=> (CurrentCalls # {})

\* C5: a requestFilter event delivered while pending is true issues no
\* second call and leaves image, filter, error and pending as they were.
C5_RequestWhilePendingIsNoOp ==
  (lastEvent = "requestFilter" /\ prev.loading) =>
     (SessionAsFound /\ Len(requests) = prev.calls)

C5_Witness == lastEvent = "requestFilter" /\ prev.loading /\ prev.calls = 1

\* C6: filter and error are never both present.
C6_FilterErrorExclusive == ~(filteredCss # None /\ error # None)

\* C7: after every event, pending is not true while filter is present.
C7_NoFilterWhilePending == ~(isLoading /\ filteredCss # None)

C7_Witness == lastEvent = "requestFilter" /\ prev.filter # None /\ isLoading

\* C8: reset, in whatever state it is applied, yields the empty session:
\* image, filter and error absent, pending false.
C8_ResetYieldsEmpty == (lastEvent = "reset") => EmptySession

C8_Witness ==
  lastEvent = "reset" /\ prev.image # None /\ prev.loading /\ prev.calls > 0

\* C9: requestFilter with no image issues no call and leaves image, filter,
\* error and pending as they were.
C9_RequestInIdleIsNoOp ==
  (lastEvent = "requestFilter" /\ prev.image = None) =>
     (SessionAsFound /\ Len(requests) = prev.calls)

C9_Witness == lastEvent = "requestFilter" /\ prev.image = None

\* C10: requestFilter with an image and pending false raises pending, clears
\* filter and error, issues one call and leaves image as it was.
C10_RequestAccepted ==
  (lastEvent = "requestFilter" /\ prev.image # None /\ ~prev.loading) =>
     /\ isLoading
     /\ filteredCss = None
     /\ error = None
     /\ originalImage = prev.image
     /\ Len(requests) = prev.calls + 1

C10_Witness ==
  lastEvent = "requestFilter" /\ prev.error # None /\ ~prev.loading /\ isLoading

\* C11: a request that fails while pending, whatever the failure, leaves
\* error present and non-empty, pending false and filter absent.
C11_FailureSetsErrorClearsPending ==
  (lastEvent = "requestFailed" /\ prev.loading) =>
     /\ error # None
     /\ error[1] # << >>
     /\ ~isLoading
     /\ filteredCss = None

\* Scenario B: the service answers {"filter": ""}.
C11_Witness ==
  /\ lastEvent = "requestFailed"
  /\ prev.loading
  /\ prev.resp[1].text = <<P("{"), Str("filter"), P(":"), Str(""), P("}")>>
  /\ error # None

\* The outcome C12 states for what the service produced: the first failing
\* step in order, or "ok".
ClaimedKind(resp) ==
  LET jsonText == trim(resp.text)
      parsed == JSONparse(jsonText)
  IN  IF resp.kind = "reject" THEN "ServiceUnavailable"
      ELSE IF jsonText = << >> THEN "EmptyResponse"
      ELSE IF ~parsed.ok THEN "MalformedResponse"
      ELSE IF \/ parsed.value.t # "object"
              \/ parsed.value.fields = << >>
              \/ "filter" \notin DOMAIN parsed.value.fields
              \/ parsed.value.fields["filter"].t # "string"
              \/ parsed.value.fields["filter"].s = ""
      THEN "InvalidFilterValue"
      ELSE "ok"

\* The kind a failure shows: errors carry no kind but their message.
KindShown(message) ==
  LET text == message[Len(message)]
  IN  CASE text = "API returned an empty response." -> "EmptyResponse"
        [] text = "Unexpected token in JSON" -> "MalformedResponse"
        [] text = "Invalid or empty filter value in API response." -> "InvalidFilterValue"
        [] OTHER -> "ServiceUnavailable"

\* C12: every payload is classified by its first failing step (empty after
\* trimming, not parseable, filter absent or not a non-empty string), a
\* rejected call is ServiceUnavailable, and otherwise exactly the filter
\* field's value is returned.
C12_ClassifiedByFirstFailingStep ==
  (Completion /\ prev.resp[1].kind \in {"reject", "text"}) =>
     LET resp == prev.resp[1]
     IN  IF ClaimedKind(resp) = "ok"
         THEN filteredCss = Some(JSONparse(trim(resp.text)).value.fields["filter"].s)
         ELSE /\ lastEvent = "requestFailed"
              /\ KindShown(error[1]) = ClaimedKind(resp)

\* C13: filter becomes present only by the success of the most recent call
\* issued by the current session, and is then the non-empty descriptor that
\* call returned.
C13_FilterOnlyFromCurrentRequest ==
  (lastEvent = "requestSucceeded") =>
     /\ prev.call[1].current
     /\ prev.call[1].latest
     /\ filteredCss = Some(getVividWarmFilterCss(prev.resp[1]).value)
     /\ filteredCss # Some("")

\* C14: with the credential absent at startup, initialization fails with a
\* configuration error: the component never mounts, no event is handled and
\* no file read or generation call is ever started.
C14_NoSessionWithoutCredential ==
  (API_KEY = None) =>
     /\ lastEvent = "configurationError"
     /\ EmptySession
     /\ requests = << >>
     /\ readers = << >>

C14_Witness == API_KEY = None /\ lastEvent = "configurationError"

\* C15: a file read that fails is surfaced as a session error and changes
\* nothing else: error is present, image is as it was, and an error that
\* was present is not cleared.
C15_UnreadableFileSurfaced ==
  (lastEvent = "imageUnreadable") =>
     /\ error # None
     /\ originalImage = prev.image
     /\ filteredCss = prev.filter

\* C16: a file read that completes when image is already present does not
\* replace image and does not clear filter or error.
C16_ImageSetOncePerCycle ==
  (lastEvent = "imageLoaded" /\ prev.image # None) => SessionAsFound

\* C17: with a service that eventually answers, pending does not stay true
\* forever: every state with pending true is followed by one with pending
\* false.
C17_PendingEventuallyClears == isLoading ~> ~isLoading

C17_Witness == isLoading /\ Len(requests) = 1 /\ lastEvent = "requestFilter"

\* C18: no state of the mounted component is terminal: some event is always
\* enabled, and whenever an image is present and pending is false (Ready,
\* Succeeded, Failed) a requestFilter is accepted (room for one more call
\* given) and a reset is accepted.
C18_NoTerminalState ==
  ModuleLoads =>
     /\ ENABLED Next
     /\ (originalImage # None) => ENABLED Reset
     /\ (originalImage # None /\ ~isLoading /\ Len(requests) < MaxInflight)
           => ENABLED (RequestFilter /\ isLoading')

\* Failed, with nothing in flight.
C18_Witness ==
  /\ lastEvent = "requestFailed"
  /\ originalImage # None
  /\ error # None
  /\ ~isLoading
  /\ requests = << >>
  /\ readers = << >>

\* C19: nothing retries: an accepted requestFilter issues exactly one call,
\* a completion, failed or not, ends its call and issues none, and no other
\* event issues a call.
C19_NoRetries ==
  /\ (lastEvent = "requestFilter" /\ prev.image # None /\ ~prev.loading)
        => Len(requests) = prev.calls + 1
  /\ Completion => Len(requests) = prev.calls - 1
  /\ (lastEvent \notin {"requestFilter", "requestSucceeded", "requestFailed"})
        => Len(requests) = prev.calls

C19_Witness ==
  lastEvent = "requestFailed" /\ prev.calls = 1 /\ requests = << >> /\ error # None

\* C20: after a request fails with message m, error equals m verbatim (for a
\* rejected call, the message of the rejection), with nothing prepended or
\* appended.
C20_ErrorIsMessageVerbatim ==
  (lastEvent = "requestFailed") =>
     LET resp == prev.resp[1]
     IN  IF resp.kind = "reject" /\ resp.isError
         THEN error = Some(resp.message)
         ELSE error = Some(getVividWarmFilterCss(resp).message)

\* C20, amended: after a request fails, error is "Failed to apply filter. "
\* followed by the message of the error getVividWarmFilterCss threw; for a
\* call rejected with an Error that message is "Gemini API Error: " followed
\* by the rejection's message.
C20_ErrorIsPrefixedMessage ==
  (lastEvent = "requestFailed") =>
     LET resp == prev.resp[1]
     IN  /\ error = Some(<<"Failed to apply filter. ">> \o getVividWarmFilterCss(resp).message)
         /\ (resp.kind = "reject" /\ resp.isError) =>
               error = Some(<<"Failed to apply filter. ", "Gemini API Error: ">> \o resp.message)

\* Scenario C: the call is rejected with Error("timeout").
C20_Witness ==
  /\ lastEvent = "requestFailed"
  /\ prev.resp[1].kind = "reject"
  /\ prev.resp[1].isError
  /\ error = Some(<<"Failed to apply filter. ", "Gemini API Error: ", "timeout">>)

====
